---------------------------- MODULE Spec2Model ----------------------------
(***************************************************************************)
(* Model of the asset bucket service (src/main.py): upload pipeline,       *)
(* variant generation, folder-scoped storage layout, metadata store and    *)
(* deletion.                                                               *)
(*                                                                         *)
(* Strings are sequences of tokens.  A token is a TLA+ string standing for *)
(* one character ("/", "\\", " ", ".") or for a run of characters that no  *)
(* operation of the program ever splits ("app", "n1", "png").              *)
(* A resolved path is a sequence of segments, each segment a string.       *)
(***************************************************************************)
EXTENDS Naturals, Sequences, FiniteSets, TLC

(***************************************************************************)
(* Bounds of the model.                                                    *)
(***************************************************************************)
\* Number of upload requests of a behaviour (each draws fresh uuid4 values).
MaxUploads == 2
\* Longest signature name a scanner reply carries.
MaxSigLen == 2
\* Most file removals of one delete_asset_files call that raise OSError.
MaxRemoveErrors == 1
\* Longest folder form field of the normalisation runs, in characters.
MaxFolderLen == 4
MaxRetries == 10

(***************************************************************************)
(* String helpers (Python str semantics on token sequences).               *)
(***************************************************************************)
\* Python's None, kept apart from every string (no input holds this token).
None == <<"<None>">>

\* Characters str.strip() without arguments removes.
Whitespace == {" "}

RECURSIVE LStrip(_, _)
LStrip(s, chars) ==
  IF s # <<>> /\ Head(s) \in chars THEN LStrip(Tail(s), chars) ELSE s

RECURSIVE RStrip(_, _)
RStrip(s, chars) ==
  IF s # <<>> /\ s[Len(s)] \in chars
  THEN RStrip(SubSeq(s, 1, Len(s) - 1), chars)
  ELSE s

\* str.strip(chars)
Strip(s, chars) == RStrip(LStrip(s, chars), chars)

\* str.startswith(prefix)
StartsWith(s, prefix) ==
  Len(s) >= Len(prefix) /\ SubSeq(s, 1, Len(prefix)) = prefix

\* `sub in s` for strings: sub occurs as a contiguous run of s.
Contains(s, sub) ==
  \E i \in 1..(Len(s) + 1) :
    i + Len(sub) - 1 <= Len(s) /\ SubSeq(s, i, i + Len(sub) - 1) = sub

\* str.replace(old, new) for a one-token old.
RECURSIVE Replace1(_, _, _)
Replace1(s, old, new) ==
  IF s = <<>> THEN <<>>
  ELSE (IF Head(s) = old THEN <<new>> ELSE <<Head(s)>>) \o Replace1(Tail(s), old, new)

\* One pass of str.replace("//", "/"): left to right, non-overlapping.
RECURSIVE ReplaceDoubleSlash(_)
ReplaceDoubleSlash(s) ==
  IF Len(s) < 2 THEN s
  ELSE IF s[1] = "/" /\ s[2] = "/"
       THEN <<"/">> \o ReplaceDoubleSlash(SubSeq(s, 3, Len(s)))
       ELSE <<s[1]>> \o ReplaceDoubleSlash(Tail(s))

\* while "//" in normalized: normalized = normalized.replace("//", "/")
RECURSIVE CollapseSlashes(_)
CollapseSlashes(s) ==
  IF Contains(s, <<"/", "/">>) THEN CollapseSlashes(ReplaceDoubleSlash(s)) ELSE s

\* str.lower() on the tokens the inputs use.
LowerToken(t) ==
  CASE t = "PNG" -> "png"
    [] t = "PDF" -> "pdf"
    [] OTHER -> t

Lower(s) == [i \in 1..Len(s) |-> LowerToken(s[i])]

\* Set of all sequences over S of length at most n.
SeqsUpTo(S, n) == UNION {[1..k -> S] : k \in 0..n}

(***************************************************************************)
(* PathNormalizer                                                          *)
(***************************************************************************)
_normalize_folder_path(folder) ==
  IF folder = None \/ folder = <<>> \/ Strip(folder, Whitespace) = <<>>
  THEN None
  ELSE LET stripped == Strip(Strip(Strip(folder, Whitespace), {"/"}), {"\\"})
       IN IF stripped = <<>>
          THEN None
          ELSE CollapseSlashes(Replace1(stripped, "\\", "/"))

\* Python truthiness of an optional string: `if folder:`
Truthy(s) == s # None /\ s # <<>>

(***************************************************************************)
(* Paths: os.path and the filesystem's resolution of a path string.        *)
(***************************************************************************)
\* os.path.join(a, b) on POSIX.
PathJoin(a, b) ==
  IF b # <<>> /\ b[1] = "/" THEN b
  ELSE IF a = <<>> \/ a[Len(a)] = "/" THEN a \o b
  ELSE a \o <<"/">> \o b

\* str.split("/"): the segments between slashes (empty ones included).
RECURSIVE SplitSlash(_)
SplitSlash(s) ==
  IF ~ Contains(s, <<"/">>) THEN <<s>>
  ELSE LET i == CHOOSE k \in 1..Len(s) : s[k] = "/" /\ \A j \in 1..(k - 1) : s[j] # "/"
       IN <<SubSeq(s, 1, i - 1)>> \o SplitSlash(SubSeq(s, i + 1, Len(s)))

\* Kernel path walk over segments: "" and "." stay, ".." goes to the parent.
RECURSIVE Walk(_, _)
Walk(segs, acc) ==
  IF segs = <<>> THEN acc
  ELSE LET g == Head(segs)
       IN IF g = <<>> \/ g = <<".">> THEN Walk(Tail(segs), acc)
          ELSE IF g = <<".", ".">>
               THEN Walk(Tail(segs), IF acc = <<>> THEN acc ELSE SubSeq(acc, 1, Len(acc) - 1))
               ELSE Walk(Tail(segs), Append(acc, g))

\* The file or directory an absolute path string names.
Resolve(p) == Walk(SplitSlash(p), <<>>)

\* os.path.dirname of a resolved path.
Parent(rp) == IF rp = <<>> THEN rp ELSE SubSeq(rp, 1, Len(rp) - 1)

IsPrefix(a, b) == Len(a) <= Len(b) /\ SubSeq(b, 1, Len(a)) = a

\* os.makedirs(path, exist_ok=True): every directory the walk passes.
MakeDirs(p) ==
  LET segs == SplitSlash(p)
  IN {Walk(SubSeq(segs, 1, k), <<>>) : k \in 1..Len(segs)}

\* os.path.splitext(filename)[1]: from the last dot, leading dots aside.
SplitExt(filename) ==
  LET dots == {i \in 1..Len(filename) :
                 filename[i] = "." /\ \E j \in 1..(i - 1) : filename[j] # "."}
  IN IF dots = {} THEN <<>>
     ELSE LET i == CHOOSE k \in dots : \A m \in dots : m <= k
          IN SubSeq(filename, i, Len(filename))


(***************************************************************************)
(* Configuration (module level of src/main.py).                            *)
(***************************************************************************)
BASE_PATH == <<"/", "app", "/", "storage">>
UPLOAD_TEMP == <<"/", "app", "/", "uploads">>

IMAGE_SUBDIRECTORIES == <<"small", "medium", "high", "original", "placeholder">>
IMAGE_VARIANT_SET == {IMAGE_SUBDIRECTORIES[i] : i \in 1..Len(IMAGE_SUBDIRECTORIES)}

\* IMAGE_VARIANTS in insertion order: variant key, the folder it is written
\* to and its bounding box (<<>> for None).
IMAGE_VARIANTS ==
  << [key |-> "image_url_original", folder |-> "original", max_size |-> <<>>],
     [key |-> "image_url_small", folder |-> "small", max_size |-> <<320, 320>>],
     [key |-> "image_url_medium", folder |-> "medium", max_size |-> <<800, 800>>],
     [key |-> "image_url_high", folder |-> "high", max_size |-> <<1600, 1600>>],
     [key |-> "image_url_placeholder", folder |-> "placeholder", max_size |-> <<20, 20>>] >>

Categories == {"image", "pdf", "audio", "video"}

\* DIRS: category -> root directory path.
DIRS ==
  [c \in Categories |->
     PathJoin(BASE_PATH, <<(CASE c = "image" -> "images"
                              [] c = "pdf" -> "pdf"
                              [] c = "audio" -> "audio"
                              [] c = "video" -> "video")>>)]

\* _ensure_directories(): the directory tree right after start-up.
_ensure_directories ==
  MakeDirs(BASE_PATH) \cup MakeDirs(UPLOAD_TEMP)
    \cup UNION {MakeDirs(DIRS[c]) : c \in Categories}
    \cup UNION {MakeDirs(PathJoin(DIRS["image"], <<IMAGE_SUBDIRECTORIES[i]>>)) :
                  i \in 1..Len(IMAGE_SUBDIRECTORIES)}

_get_folder_storage_path(base_dir, folder) ==
  IF Truthy(folder) THEN PathJoin(base_dir, folder) ELSE base_dir

\* _ensure_folder_directories(category, folder): the directories it makes sure of.
_ensure_folder_directories(category, folder) ==
  LET folder_path == _get_folder_storage_path(DIRS[category], folder)
  IN MakeDirs(folder_path)
       \cup (IF category = "image"
             THEN UNION {MakeDirs(PathJoin(folder_path, <<IMAGE_SUBDIRECTORIES[i]>>)) :
                           i \in 1..Len(IMAGE_SUBDIRECTORIES)}
             ELSE {})

\* A generator that returns the same value to every request.
uuid4_repeated(site, u) == site \o "1"

\* uuid.uuid4(): a value no other call returns; `site` is the call site
\* ("t" temp file, "n" base name, "i" record uid) and u the request drawing it.
uuid4(site, u) == site \o ToString(u)

\* An upload path inside the image root instead of the temp directory.
PermanentUploadPath(u, filename) ==
  PathJoin(DIRS["image"], <<uuid4("n", u), "_">> \o filename)

_get_temp_file_path(u, filename) ==
  PathJoin(UPLOAD_TEMP, <<uuid4("t", u), "_">> \o filename)

(***************************************************************************)
(* Classifier                                                              *)
(***************************************************************************)
\* A classification that trusts an image file name when the type is unknown.
classify_file_by_name(mime_type, filename) ==
  IF StartsWith(mime_type, <<"image", "/">>) THEN "image"
  ELSE IF filename # <<>> /\ filename[Len(filename)] = "PNG" THEN "image"
  ELSE IF mime_type = <<"application", "/", "pdf">> THEN "pdf"
  ELSE IF StartsWith(mime_type, <<"audio", "/">>) THEN "audio"
  ELSE IF StartsWith(mime_type, <<"video", "/">>) THEN "video"
  ELSE "unsupported"

\* The category, or "unsupported" where the code raises HTTPException(400).
classify_file(mime_type, filename) ==
  IF StartsWith(mime_type, <<"image", "/">>) THEN "image"
  ELSE IF mime_type = <<"application", "/", "pdf">> THEN "pdf"
  ELSE IF StartsWith(mime_type, <<"audio", "/">>) THEN "audio"
  ELSE IF StartsWith(mime_type, <<"video", "/">>) THEN "video"
  ELSE "unsupported"

(***************************************************************************)
(* Scan gate                                                               *)
(***************************************************************************)
\* What clamd does with one INSTREAM session: the connection fails, or it
\* replies "stream: OK" or "stream: <signature> FOUND".
SignatureChars == {"O", "K", "x"}
Signatures == SeqsUpTo(SignatureChars, MaxSigLen) \ {<<>>}
CleanReply == <<"stream: ", "O", "K">>
FoundReply(sig) == <<"stream: ">> \o sig \o <<" F", "O", "UND">>

ScannerBehaviours ==
  {[kind |-> "unreachable", reply |-> <<>>], [kind |-> "clean", reply |-> CleanReply]}
    \cup {[kind |-> "found", reply |-> FoundReply(sig)] : sig \in Signatures}

\* The scan gate of src/custom_bucket/main.py: an unreachable scanner
\* refuses the upload.
scan_file_fail_closed(enabled, scanner) ==
  IF ~ enabled THEN TRUE
  ELSE IF scanner.kind = "unreachable" THEN FALSE
  ELSE Contains(scanner.reply, <<"O", "K">>)

\* scan_file_with_clamav under configuration `enabled` against a scanner
\* behaving as `scanner`: TRUE allows the upload.
scan_file_with_clamav(enabled, scanner) ==
  IF ~ enabled THEN TRUE
  ELSE IF scanner.kind = "unreachable" THEN TRUE
  ELSE Contains(scanner.reply, <<"O", "K">>)


(***************************************************************************)
(* Inputs of the requests.                                                 *)
(***************************************************************************)
Uploads == 1..MaxUploads

\* Caller-supplied folder form fields: none, empty, a nested folder written
\* with slashes around and a backslash inside, a backslash followed by a
\* slash, and the parent directory.
FolderInputs ==
  { None,
    <<>>,
    <<"/", "a", "\\", "b", "/">>,
    <<"\\", "/", "a">>,
    <<".", ".">> }

\* Client file names: with an upper-case extension, and without extension.
FilenameInputs == { <<"t", ".", "PNG">>, <<"t">> }

\* What get_mime_type sniffs from the uploaded content.
MimeInputs ==
  { <<"image", "/", "png">>,
    <<"application", "/", "pdf">>,
    <<"audio", "/", "mpeg">>,
    <<"video", "/", "mp4">>,
    <<"text", "/", "plain">> }

\* The pixel size (width, height) of the uploaded image.
SizeInputs == { <<640, 480>> }

\* Folder form fields of the normalisation runs: none, and every string of
\* blanks, slashes, backslashes and a letter up to MaxFolderLen.
FolderChars == {" ", "/", "\\", "a"}
NormalizeInputs == {None} \cup SeqsUpTo(FolderChars, MaxFolderLen)

\* Pixel sizes of the resizing runs: inside, on and over the edge of each
\* box, wide and tall, and with one side that scales to less than a pixel.
VariantSizeInputs ==
  { <<100, 100>>, <<20, 20>>, <<21, 20>>, <<320, 320>>, <<321, 200>>,
    <<640, 480>>, <<800, 801>>, <<1600, 1200>>, <<1601, 1601>>,
    <<3000, 4000>>, <<4000, 3000>>, <<5000, 1>>, <<1, 5000>>, <<145, 100>> }

\* The inputs of the uploads that run side by side (SpecConcurrent).
ConcurrentFolderInputs == { None, <<"/", "a", "\\", "b", "/">> }
ConcurrentFilenameInputs == { <<"t", ".", "PNG">> }
ConcurrentMimeInputs == { <<"image", "/", "png">>, <<"application", "/", "pdf">> }

(***************************************************************************)
(* State.                                                                  *)
(***************************************************************************)
VARIABLES
  clamav_enabled,  \* CLAMAV_ENABLED, fixed at start-up
  files,           \* the files on disk (resolved paths)
  dirs,            \* the directories on disk (resolved paths)
  db,              \* the media_assets table: a set of MediaAsset rows
  up,              \* the upload requests: position and locals of each
  del,             \* the delete request in flight: position and locals
  peer,            \* a second delete request in flight at the same time
  startup          \* on_startup: the position and locals of init_db

vars == <<clamav_enabled, files, dirs, db, up, del, peer, startup>>

NoManifest == [present |-> FALSE, entries |-> <<>>]

\* Besides the handler's locals: token_ok, the credential check of the
\* request; scan and allowed, what the scanner did and what the scan gate
\* returned (kept until classification); placed, the files the run has
\* written to permanent storage; probe, what the probing tool did;
\* folder_raw, the folder form field as sent; source_size, the pixel size
\* of the uploaded image; asset, the row the persist function returned,
\* from which the response is built; sniffed, get_mime_type has read the
\* temp file; probed, the file extract_file_metadata was run against.
IdleUpload ==
  [pc |-> "idle", outcome |-> "", filename |-> <<>>, folder |-> None,
   mime_type |-> <<>>, temp_path |-> <<>>, category |-> "", base_name |-> <<>>,
   extension |-> <<>>, idx |-> 0, variants |-> <<>>,
   source_size |-> <<>>, folder_raw |-> None,
   token_ok |-> TRUE, scan |-> "", allowed |-> TRUE, placed |-> {}, probe |-> "",
   asset |-> {}, sniffed |-> FALSE, probed |-> {}]

\* asset: the row the handler holds.  Besides the handler's locals:
\* token_ok, the credential check of the request; target, the rows its
\* identifier names; failed, the files whose removal raised OSError;
\* malformed, the identifier is not a well-formed UUID; retry, the request
\* names the asset whose deletion was interrupted just before; named, the
\* uploads whose base name or uid the identifier is; removed, the files the
\* request has removed.
IdleDelete ==
  [pc |-> "idle", outcome |-> "", asset |-> {},
   token_ok |-> TRUE, target |-> {}, failed |-> {},
   malformed |-> FALSE, retry |-> FALSE, named |-> {}, removed |-> {}]

\* init_db has returned: the tables exist and the application serves.
\* retries: the parameter; attempt: the loop variable; failed: the attempts
\* that raised OperationalError; sleeps: the waits after them.
Started ==
  [pc |-> "done", outcome |-> "returned", retries |-> 0, attempt |-> 0,
   failed |-> 0, sleeps |-> 0]

Init ==
  /\ clamav_enabled \in BOOLEAN
  /\ files = {}
  /\ dirs = _ensure_directories
  /\ db = {}
  /\ up = [u \in Uploads |-> IdleUpload]
  /\ del = IdleDelete
  /\ peer = IdleDelete
  /\ startup = Started

\* A request that has ended: with a response or with an exception.
Ended(r) == r.pc = "done"

\* A removal that leaves the file in place.
KeepFile(fs, file_path) == fs

\* _remove_file_if_exists(file_path) applied to the set of files.
_remove_file_if_exists(fs, file_path) == fs \ {Resolve(file_path)}

\* Files outside the upload temp directory.
Permanent(fs) == {f \in fs : ~ IsPrefix(Resolve(UPLOAD_TEMP), f)}

(***************************************************************************)
(* IngestionPipeline: POST /upload                                         *)
(***************************************************************************)
\* Token check, folder normalisation, body written to a fresh temp file.
upload_file_receive(u, token_ok, filename, folder, content_mime, content_size) ==
  /\ up[u].pc = "idle"
  /\ u > 1 => up[u - 1].pc # "idle"
  /\ IF ~ token_ok
     THEN /\ up' = [up EXCEPT ![u].pc = "done", ![u].token_ok = FALSE,
                              ![u].outcome = "InvalidCredential"]
          /\ UNCHANGED files
     ELSE LET temp_path == _get_temp_file_path(u, filename)
          IN /\ files' = files \cup {Resolve(temp_path)}
             /\ up' = [up EXCEPT ![u].pc = "scan",
                                 ![u].filename = filename,
                                 ![u].folder_raw = folder,
                                 ![u].folder = _normalize_folder_path(folder),
                                 ![u].mime_type = content_mime,
                                 ![u].source_size = content_size,
                                 ![u].temp_path = temp_path]
  /\ UNCHANGED <<startup, peer, clamav_enabled, dirs, db, del>>

\* MIME sniffed, then the scan gate; a refused file is removed and the run ends.
upload_file_scan(u, scanner) ==
  /\ up[u].pc = "scan"
  /\ LET verdict == IF clamav_enabled THEN scanner.kind ELSE "disabled"
         allowed == scan_file_with_clamav(clamav_enabled, scanner)
     IN IF ~ allowed
        THEN /\ files' = _remove_file_if_exists(files, up[u].temp_path)
             /\ up' = [up EXCEPT ![u].pc = "done", ![u].scan = verdict,
                                 ![u].allowed = allowed, ![u].sniffed = TRUE,
                                 ![u].outcome = "SecurityScanFailed"]
        ELSE /\ up' = [up EXCEPT ![u].pc = "classify", ![u].scan = verdict,
                                 ![u].allowed = allowed, ![u].sniffed = TRUE]
             /\ UNCHANGED files
  /\ UNCHANGED <<startup, peer, clamav_enabled, dirs, db, del>>

\* A classification step that waits while another request encodes an image.
upload_file_classify_exclusive(u) ==
  /\ up[u].pc = "classify"
  /\ \A v \in Uploads : v # u => up[v].pc \notin {"variants", "variant"}
  /\ LET category == classify_file(up[u].mime_type, up[u].filename)
     IN up' = IF category = "unsupported"
              THEN [up EXCEPT ![u].pc = "done", ![u].scan = "",
                              ![u].outcome = "UnsupportedMediaType"]
              ELSE [up EXCEPT ![u].category = category, ![u].scan = "",
                              ![u].pc = IF category = "image" THEN "variants" ELSE "place"]
  /\ UNCHANGED <<startup, peer, clamav_enabled, files, dirs, db, del>>

\* classify_file on the sniffed type; an unsupported type raises.
upload_file_classify(u) ==
  /\ up[u].pc = "classify"
  /\ LET category == classify_file(up[u].mime_type, up[u].filename)
     IN up' = IF category = "unsupported"
              THEN [up EXCEPT ![u].pc = "done", ![u].scan = "",
                              ![u].outcome = "UnsupportedMediaType"]
              ELSE [up EXCEPT ![u].category = category, ![u].scan = "",
                              ![u].pc = IF category = "image" THEN "variants" ELSE "place"]
  /\ UNCHANGED <<startup, peer, clamav_enabled, files, dirs, db, del>>

\* The extension generate_image_variants gives the variant files.
ImageFileExtension(filename) ==
  LET extension == Lower(SplitExt(filename))
  IN IF extension = <<>> THEN <<".", "jpg">> ELSE extension

\* The extension upload_file gives a non-image file.
NonImageExtension(filename, mime_type) ==
  LET extension == LStrip(SplitExt(filename), {"."})
  IN IF extension # <<>> THEN extension
     ELSE IF mime_type = <<"application", "/", "pdf">> THEN <<"pdf">>
     ELSE IF StartsWith(mime_type, <<"audio", "/">>) THEN <<"mp3">>
     ELSE IF StartsWith(mime_type, <<"video", "/">>) THEN <<"mp4">>
     ELSE extension

\* variant_key.replace("image_url_", "image_")
ResponseKey(variant_key) ==
  CASE variant_key = "image_url_original" -> "image_original"
    [] variant_key = "image_url_small" -> "image_small"
    [] variant_key = "image_url_medium" -> "image_medium"
    [] variant_key = "image_url_high" -> "image_high"
    [] variant_key = "image_url_placeholder" -> "image_placeholder"

\* Where generate_image_variants writes variant number idx of upload u.
VariantPath(folder, idx, filename_with_ext) ==
  PathJoin(PathJoin(_get_folder_storage_path(DIRS["image"], folder),
                    <<IMAGE_VARIANTS[idx].folder>>),
           filename_with_ext)

\* The path the manifest reports for variant number idx.
VariantUrlPath(folder, idx, filename_with_ext) ==
  LET path_prefix == IF Truthy(folder)
                     THEN <<"/", "files", "/", "images", "/">> \o folder
                     ELSE <<"/", "files", "/", "images">>
  IN path_prefix \o <<"/", IMAGE_VARIANTS[idx].folder, "/">> \o filename_with_ext

AbsDiff(a, b) == IF a >= b THEN a - b ELSE b - a

\* A resize that always fills the box in one direction, enlarging a small image.
resize_to_box(size, box) ==
  IF box[1] * size[2] >= box[2] * size[1]
  THEN <<(box[2] * size[1]) \div size[2], box[2]>>
  ELSE <<box[1], (box[1] * size[2]) \div size[1]>>

\* Pillow's Image.thumbnail(box) on an image of the given size: the size
\* after the call.  An image that fits is left alone; otherwise the side
\* that overflows most takes the box side and the other is the floor or the
\* ceiling of the scaled value, whichever keeps the aspect ratio closer
\* (the floor on a tie), and at least 1.
thumbnail(size, box) ==
  LET width == size[1]
      height == size[2]
      x == box[1]
      y == box[2]
  IN IF x >= width /\ y >= height THEN size
     ELSE IF x * height >= y * width
     THEN LET f == (y * width) \div height
              c == IF (y * width) % height = 0 THEN f ELSE f + 1
              n == IF AbsDiff(width * y, f * height) <= AbsDiff(width * y, c * height)
                   THEN f ELSE c
          IN <<IF n < 1 THEN 1 ELSE n, y>>
     ELSE LET f == (x * height) \div width
              c == IF (x * height) % width = 0 THEN f ELSE f + 1
              n == IF f = 0 THEN f
                   ELSE IF AbsDiff(width * f, x * height) * c
                             <= AbsDiff(width * c, x * height) * f
                   THEN f ELSE c
          IN <<x, IF n < 1 THEN 1 ELSE n>>

\* The width and height generate_image_variants reports for a variant: the
\* size of a fresh copy of the source after thumbnail, if the variant has a box.
VariantSize(source_size, config) ==
  IF config.max_size # <<>> THEN thumbnail(source_size, config.max_size)
  ELSE source_size

\* generate_image_variants up to Image.open: names, directories, decoding.
generate_image_variants_open(u, decodable) ==
  /\ up[u].pc = "variants"
  /\ dirs' = dirs \cup _ensure_folder_directories("image", up[u].folder)
  /\ up' = IF decodable
           THEN [up EXCEPT ![u].pc = "variant", ![u].idx = 1,
                           ![u].base_name = <<uuid4("n", u)>>,
                           ![u].extension = ImageFileExtension(up[u].filename)]
           ELSE [up EXCEPT ![u].pc = "done", ![u].outcome = "UnidentifiedImageError",
                           ![u].base_name = <<uuid4("n", u)>>,
                           ![u].extension = ImageFileExtension(up[u].filename)]
  /\ UNCHANGED <<startup, peer, clamav_enabled, files, db, del>>

\* One turn of the loop over IMAGE_VARIANTS: the variant is saved, or the
\* save raises and generate_image_variants ends with the exception.
generate_image_variants_save(u, write_ok) ==
  /\ up[u].pc = "variant"
  /\ LET filename_with_ext == up[u].base_name \o up[u].extension
         variant_path == VariantPath(up[u].folder, up[u].idx, filename_with_ext)
         target == Resolve(variant_path)
     IN IF write_ok /\ Parent(target) \in dirs
        THEN /\ files' = files \cup {target}
             /\ up' = [up EXCEPT
                  ![u].variants = Append(@,
                     [key |-> ResponseKey(IMAGE_VARIANTS[up[u].idx].key),
                      path |-> VariantUrlPath(up[u].folder, up[u].idx, filename_with_ext),
                      size |-> VariantSize(up[u].source_size, IMAGE_VARIANTS[up[u].idx])]),
                  ![u].placed = @ \cup {target},
                  ![u].idx = @ + 1,
                  ![u].pc = IF up[u].idx = Len(IMAGE_VARIANTS) THEN "persist" ELSE "variant"]
        ELSE /\ up' = [up EXCEPT ![u].pc = "done", ![u].outcome = "OSError"]
             /\ UNCHANGED files
  /\ UNCHANGED <<startup, peer, clamav_enabled, dirs, db, del>>

\* The MediaAsset row persist_asset_metadata builds for an image.
ImageAsset(u) ==
  [uid |-> uuid4("i", u),
   original_name |-> up[u].filename,
   name |-> up[u].base_name,
   model_type |-> "image",
   folder |-> IF Truthy(up[u].folder)
              THEN <<"images", "/">> \o up[u].folder ELSE <<"images">>,
   mime_type |-> up[u].mime_type,
   extension |-> LStrip(up[u].extension, {"."}),
   custom_properties |-> {"width", "height"},
   responsive_images |-> [present |-> TRUE, entries |-> up[u].variants]]

\* A persist step that removes the variant files when the commit fails.
persist_asset_metadata_cleanup(u, commit_ok) ==
  /\ up[u].pc = "persist"
  /\ up[u].category = "image"
  /\ IF commit_ok
     THEN /\ files' = _remove_file_if_exists(files, up[u].temp_path)
          /\ db' = db \cup {ImageAsset(u)}
          /\ up' = [up EXCEPT ![u].pc = "done", ![u].outcome = "Complete",
                              ![u].asset = {ImageAsset(u)}]
     ELSE /\ files' = _remove_file_if_exists(files, up[u].temp_path) \ up[u].placed
          /\ up' = [up EXCEPT ![u].pc = "done", ![u].outcome = "OperationalError"]
          /\ UNCHANGED db
  /\ UNCHANGED <<startup, peer, clamav_enabled, dirs, del>>

\* After the variants: temp file removed, row inserted (the commit may fail).
persist_asset_metadata(u, commit_ok) ==
  /\ up[u].pc = "persist"
  /\ up[u].category = "image"
  /\ files' = _remove_file_if_exists(files, up[u].temp_path)
  /\ IF commit_ok
     THEN /\ db' = db \cup {ImageAsset(u)}
          /\ up' = [up EXCEPT ![u].pc = "done", ![u].outcome = "Complete",
                              ![u].asset = {ImageAsset(u)}]
     ELSE /\ up' = [up EXCEPT ![u].pc = "done", ![u].outcome = "OperationalError"]
          /\ UNCHANGED db
  /\ UNCHANGED <<startup, peer, clamav_enabled, dirs, del>>

\* A placement that copies the temp file and leaves it where it was.
upload_file_place_copy(u) ==
  /\ up[u].pc = "place"
  /\ LET extension == NonImageExtension(up[u].filename, up[u].mime_type)
         base_name == <<uuid4("n", u)>>
         unique_name == base_name \o <<".">> \o extension
         base_dir == _get_folder_storage_path(DIRS[up[u].category], up[u].folder)
         final_path == Resolve(PathJoin(base_dir, unique_name))
     IN /\ dirs' = dirs \cup _ensure_folder_directories(up[u].category, up[u].folder)
        /\ files' = files \cup {final_path}
        /\ up' = [up EXCEPT ![u].pc = "persist", ![u].base_name = base_name,
                            ![u].extension = extension,
                            ![u].placed = @ \cup {final_path}]
  /\ UNCHANGED <<startup, peer, clamav_enabled, db, del>>

\* Non-image: final name, directories ensured, temp file moved to its place.
upload_file_place(u) ==
  /\ up[u].pc = "place"
  /\ LET extension == NonImageExtension(up[u].filename, up[u].mime_type)
         base_name == <<uuid4("n", u)>>
         unique_name == base_name \o <<".">> \o extension
         base_dir == _get_folder_storage_path(DIRS[up[u].category], up[u].folder)
         final_path == Resolve(PathJoin(base_dir, unique_name))
     IN /\ dirs' = dirs \cup _ensure_folder_directories(up[u].category, up[u].folder)
        /\ files' = (files \ {Resolve(up[u].temp_path)}) \cup {final_path}
        /\ up' = [up EXCEPT ![u].pc = "persist", ![u].base_name = base_name,
                            ![u].extension = extension,
                            ![u].placed = @ \cup {final_path}]
  /\ UNCHANGED <<startup, peer, clamav_enabled, db, del>>

\* What the probing tool (ffprobe, pdfinfo) does in one run.
ProbeOutcomes == {"missing", "timeout", "nonzero", "malformed", "valid"}

ConcurrentProbeOutcomes == {"missing", "valid"}

\* extract_file_metadata: the keys of the map it returns, or the exception
\* it ends with.  In the audio and video branches `json` is a local name
\* bound only by the `import json` after a zero exit status, and the except
\* clause names json.JSONDecodeError: when subprocess.run raises, evaluating
\* the clause raises UnboundLocalError.
extract_file_metadata(category, probe) ==
  CASE category \in {"audio", "video"} ->
         IF probe \in {"missing", "timeout"}
         THEN [raised |-> TRUE, metadata |-> {}]
         ELSE IF probe = "valid"
         THEN [raised |-> FALSE,
               metadata |-> IF category = "audio"
                            THEN {"duration", "bitrate", "codec", "sample_rate"}
                            ELSE {"duration", "bitrate", "width", "height",
                                  "codec", "frame_rate"}]
         ELSE [raised |-> FALSE, metadata |-> {}]
    [] category = "pdf" ->
         [raised |-> FALSE, metadata |-> IF probe = "valid" THEN {"pages"} ELSE {}]
    [] OTHER -> [raised |-> FALSE, metadata |-> {}]

\* A row that records the folder of the request without the category root.
NonImageAssetBareFolder(u, custom_properties) ==
  [uid |-> uuid4("i", u),
   original_name |-> up[u].filename,
   name |-> up[u].base_name,
   model_type |-> up[u].category,
   folder |-> IF Truthy(up[u].folder) THEN up[u].folder ELSE <<up[u].category>>,
   mime_type |-> up[u].mime_type,
   extension |-> up[u].extension,
   custom_properties |-> custom_properties,
   responsive_images |-> NoManifest]

\* The MediaAsset row persist_non_image_metadata builds.
NonImageAsset(u, custom_properties) ==
  [uid |-> uuid4("i", u),
   original_name |-> up[u].filename,
   name |-> up[u].base_name,
   model_type |-> up[u].category,
   folder |-> IF Truthy(up[u].folder)
              THEN <<up[u].category, "/">> \o up[u].folder ELSE <<up[u].category>>,
   mime_type |-> up[u].mime_type,
   extension |-> up[u].extension,
   custom_properties |-> custom_properties,
   responsive_images |-> NoManifest]

\* A persist step whose row stays in the table although the commit failed.
persist_without_rollback(u, probe, commit_ok) ==
  /\ up[u].pc = "persist"
  /\ up[u].category # "image"
  /\ db' = db \cup {NonImageAsset(u, extract_file_metadata(up[u].category, probe).metadata)}
  /\ up' = [up EXCEPT ![u].pc = "done", ![u].probe = probe,
                      ![u].probed = up[u].placed,
                      ![u].outcome = IF commit_ok THEN "Complete" ELSE "OperationalError",
                      ![u].asset =
                        IF commit_ok
                        THEN {NonImageAsset(u, extract_file_metadata(up[u].category,
                                                                       probe).metadata)}
                        ELSE {}]
  /\ UNCHANGED <<startup, peer, clamav_enabled, files, dirs, del>>

\* persist_non_image_metadata: the file is probed, then the row is inserted
\* (the commit may fail).
persist_non_image_metadata(u, probe, commit_ok) ==
  /\ up[u].pc = "persist"
  /\ up[u].category # "image"
  /\ LET extracted == extract_file_metadata(up[u].category, probe)
     IN IF extracted.raised
        THEN /\ up' = [up EXCEPT ![u].pc = "done", ![u].probe = probe,
                                 ![u].probed = up[u].placed,
                                 ![u].outcome = "UnboundLocalError"]
             /\ UNCHANGED db
        ELSE IF commit_ok
        THEN /\ db' = db \cup {NonImageAsset(u, extracted.metadata)}
             /\ up' = [up EXCEPT ![u].pc = "done", ![u].probe = probe,
                                 ![u].probed = up[u].placed,
                                 ![u].outcome = "Complete",
                                 ![u].asset = {NonImageAsset(u, extracted.metadata)}]
        ELSE /\ up' = [up EXCEPT ![u].pc = "done", ![u].probe = probe,
                                 ![u].probed = up[u].placed,
                                 ![u].outcome = "OperationalError"]
             /\ UNCHANGED db
  /\ UNCHANGED <<startup, peer, clamav_enabled, files, dirs, del>>

\* An upload request arrives, with inputs of the given sets.
upload_file_begin(requests, filenames, folders, mimes, sizes) ==
  \E u \in requests, token_ok \in BOOLEAN :
    \E filename \in filenames, folder \in folders, content_mime \in mimes,
       content_size \in sizes :
      upload_file_receive(u, token_ok, filename, folder, content_mime, content_size)

\* A request in flight takes its next step.
upload_file_run(u, probes) ==
  \/ \E scanner \in ScannerBehaviours : upload_file_scan(u, scanner)
  \/ upload_file_classify(u)
  \/ \E decodable \in BOOLEAN : generate_image_variants_open(u, decodable)
  \/ \E write_ok \in BOOLEAN : generate_image_variants_save(u, write_ok)
  \/ \E commit_ok \in BOOLEAN : persist_asset_metadata(u, commit_ok)
  \/ upload_file_place(u)
  \/ \E probe \in probes, commit_ok \in BOOLEAN :
       persist_non_image_metadata(u, probe, commit_ok)

\* The event loop runs the next step of one of the requests in flight;
\* generate_image_variants runs in a worker thread (asyncio.to_thread).
upload_file(probes) == \E u \in Uploads : upload_file_run(u, probes)

(***************************************************************************)
(* AssetStore lookups.                                                     *)
(***************************************************************************)
\* get_asset_by_base_name: the rows scalar_one_or_none sees.
get_asset_by_base_name(rows, base_name) == {a \in rows : a.name = base_name}

\* str(uuid.UUID(bytes=asset.uid))
UidStr(uid) == <<uid>>

\* The identifier strings uuid.UUID() accepts.
WellFormedUuid(uid_str) ==
  Len(uid_str) = 1 /\ \E u \in Uploads : uid_str[1] = uuid4("i", u)

\* A lookup by uid that lets a malformed string match every row.
get_asset_by_uid_any(rows, uid_str) ==
  IF ~ WellFormedUuid(uid_str) THEN rows
  ELSE {a \in rows : a.uid = uid_str[1]}

\* A lookup by uid that takes every row for a well-formed string.
get_asset_by_uid_unfiltered(rows, uid_str) ==
  IF ~ WellFormedUuid(uid_str) THEN {} ELSE rows

\* get_asset_by_uid: a malformed string is answered like an unknown one.
get_asset_by_uid(rows, uid_str) ==
  IF ~ WellFormedUuid(uid_str) THEN {}
  ELSE {a \in rows : a.uid = uid_str[1]}

(***************************************************************************)
(* DeletionReconciler: DELETE /delete/name/{base_name}, /delete/uid/{uid}  *)
(***************************************************************************)
\* A deleter that looks for the files in the category root only.
NoStoredFolder(asset, root) == None

\* The folder below the category root that asset.folder records.
StoredFolder(asset, root) ==
  IF asset.folder # <<>> /\ StartsWith(asset.folder, <<root, "/">>)
       /\ SubSeq(asset.folder, 3, Len(asset.folder)) # <<>>
  THEN SubSeq(asset.folder, 3, Len(asset.folder))
  ELSE None

\* A delete_asset_files that probes, for an image, only the five variant
\* files under the extension the record stores.
delete_asset_files_stored(asset) ==
  LET filename_with_ext == asset.name \o <<".">> \o asset.extension
  IN IF asset.model_type = "image"
     THEN LET base_image_dir ==
                _get_folder_storage_path(DIRS["image"], StoredFolder(asset, "images"))
          IN {Resolve(PathJoin(PathJoin(base_image_dir, <<IMAGE_SUBDIRECTORIES[i]>>),
                               filename_with_ext)) : i \in 1..Len(IMAGE_SUBDIRECTORIES)}
     ELSE LET category == asset.model_type
              base_dir == IF category \in DOMAIN DIRS THEN DIRS[category] ELSE DIRS["image"]
          IN {Resolve(PathJoin(_get_folder_storage_path(base_dir,
                                                        StoredFolder(asset, category)),
                               filename_with_ext))}

\* The paths delete_asset_files probes, in resolved form.
delete_asset_files(asset) ==
  LET filename_with_ext == asset.name \o <<".">> \o asset.extension
  IN IF asset.model_type = "image"
     THEN LET base_image_dir ==
                _get_folder_storage_path(DIRS["image"], StoredFolder(asset, "images"))
          IN {Resolve(PathJoin(PathJoin(base_image_dir, <<IMAGE_SUBDIRECTORIES[i]>>),
                               filename_with_ext)) : i \in 1..Len(IMAGE_SUBDIRECTORIES)}
               \cup {Resolve(PathJoin(PathJoin(base_image_dir, <<"high">>),
                                      asset.name \o <<".", "jpg">>))}
     ELSE LET category == asset.model_type
              base_dir == IF category \in DOMAIN DIRS THEN DIRS[category] ELSE DIRS["image"]
          IN {Resolve(PathJoin(_get_folder_storage_path(base_dir,
                                                        StoredFolder(asset, category)),
                               filename_with_ext))}

DeleteIdents(by) ==
  IF by = "name"
  THEN {<<uuid4("n", u)>> : u \in Uploads} \cup {<<"nonexistent123">>}
  ELSE {UidStr(uuid4("i", u)) : u \in Uploads} \cup {<<"not-a-uuid">>}

\* The uploads whose asset an identifier of a delete request names.
NamedBy(ident) ==
  {u \in Uploads : ident = <<uuid4("n", u)>> \/ ident = UidStr(uuid4("i", u))}

\* A delete handler that looks the asset up without checking the token.
delete_asset_lookup_unchecked(by, ident, token_ok) ==
  /\ del.pc \in {"idle", "done"}
  /\ LET found == IF by = "name" THEN get_asset_by_base_name(db, ident)
                  ELSE get_asset_by_uid(db, ident)
         request == [IdleDelete EXCEPT
                       !.target = found, !.token_ok = token_ok,
                       !.malformed = (by = "uid" /\ ~ WellFormedUuid(ident)),
                       !.named = NamedBy(ident),
                       !.retry = (del.outcome = "Interrupted" /\ found # {}
                                    /\ found = del.asset)]
     IN del' = IF found = {}
               THEN [request EXCEPT !.pc = "done", !.outcome = "NotFound"]
               ELSE [request EXCEPT !.pc = "files", !.asset = found]
  /\ UNCHANGED <<startup, peer, clamav_enabled, files, dirs, db, up>>

\* Token check and lookup of the asset (by base name or by uid).
delete_asset_lookup(by, ident, token_ok) ==
  /\ del.pc \in {"idle", "done"}
  /\ LET found == IF by = "name" THEN get_asset_by_base_name(db, ident)
                  ELSE get_asset_by_uid(db, ident)
         request == [IdleDelete EXCEPT
                       !.target = found, !.token_ok = token_ok,
                       !.malformed = (by = "uid" /\ ~ WellFormedUuid(ident)),
                       !.named = NamedBy(ident),
                       !.retry = (del.outcome = "Interrupted" /\ found # {}
                                    /\ found = del.asset)]
     IN del' = IF ~ token_ok
               THEN [request EXCEPT !.pc = "done", !.outcome = "InvalidCredential"]
               ELSE IF found = {}
               THEN [request EXCEPT !.pc = "done", !.outcome = "NotFound"]
               ELSE [request EXCEPT !.pc = "files", !.asset = found]
  /\ UNCHANGED <<startup, peer, clamav_enabled, files, dirs, db, up>>

\* A deleter that gives up at the first file whose removal raises OSError.
delete_asset_remove_files_strict(failing) ==
  /\ del.pc = "files"
  /\ LET asset == CHOOSE a \in del.asset : TRUE
         existing == delete_asset_files(asset) \cap files
     IN /\ failing \subseteq existing
        /\ Cardinality(failing) <= MaxRemoveErrors
        /\ files' = files \ (existing \ failing)
        /\ del' = IF failing = {}
                  THEN [del EXCEPT !.pc = "db", !.failed = failing,
                                   !.removed = existing \ failing]
                  ELSE [del EXCEPT !.pc = "done", !.outcome = "OSError",
                                   !.failed = failing,
                                   !.removed = existing \ failing]
  /\ UNCHANGED <<startup, peer, clamav_enabled, dirs, db, up>>

\* A deleter that deletes the row together with the files.
delete_asset_record_first(failing) ==
  /\ del.pc = "files"
  /\ LET asset == CHOOSE a \in del.asset : TRUE
         existing == delete_asset_files(asset) \cap files
     IN /\ failing \subseteq existing
        /\ Cardinality(failing) <= MaxRemoveErrors
        /\ files' = files \ (existing \ failing)
        /\ db' = db \ del.asset
        /\ del' = [del EXCEPT !.pc = "db", !.failed = failing,
                                   !.removed = existing \ failing]
  /\ UNCHANGED <<startup, peer, clamav_enabled, dirs, up>>

\* delete_asset_files: every probed file that exists is removed, but for
\* those whose os.remove raises OSError (logged, not surfaced).
delete_asset_remove_files(failing) ==
  /\ del.pc = "files"
  /\ LET asset == CHOOSE a \in del.asset : TRUE
         existing == delete_asset_files(asset) \cap files
     IN /\ failing \subseteq existing
        /\ Cardinality(failing) <= MaxRemoveErrors
        /\ files' = files \ (existing \ failing)
        /\ del' = [del EXCEPT !.pc = "db", !.failed = failing,
                                   !.removed = existing \ failing]
  /\ UNCHANGED <<startup, peer, clamav_enabled, dirs, db, up>>

\* A record step that deletes every row of the folder of the asset.
delete_asset_from_db_folder(commit_ok) ==
  /\ del.pc = "db"
  /\ IF commit_ok
     THEN /\ db' = {a \in db : \A d \in del.asset : a.folder # d.folder}
          /\ del' = [del EXCEPT !.pc = "done", !.outcome = "Deleted"]
     ELSE /\ del' = [del EXCEPT !.pc = "done", !.outcome = "OperationalError"]
          /\ UNCHANGED db
  /\ UNCHANGED <<startup, peer, clamav_enabled, files, dirs, up>>

\* delete_asset_from_db: the row is deleted (the commit may fail).
delete_asset_from_db(commit_ok) ==
  /\ del.pc = "db"
  /\ IF commit_ok
     THEN /\ db' = {a \in db : \A d \in del.asset : a.uid # d.uid}
          /\ del' = [del EXCEPT !.pc = "done", !.outcome = "Deleted"]
     ELSE /\ del' = [del EXCEPT !.pc = "done", !.outcome = "OperationalError"]
          /\ UNCHANGED db
  /\ UNCHANGED <<startup, peer, clamav_enabled, files, dirs, up>>

\* A crash of the worker: the process stops after the files were
\* removed and before the row is deleted; the request ends without answer.
delete_asset_interrupted ==
  /\ del.pc = "db"
  /\ del' = [del EXCEPT !.pc = "done", !.outcome = "Interrupted"]
  /\ UNCHANGED <<startup, peer, clamav_enabled, files, dirs, db, up>>

\* The sets of files whose removal may raise OSError in the call at hand.
RemovalFailures ==
  IF del.pc # "files" THEN {}
  ELSE {failing \in SUBSET (UNION {delete_asset_files(a) : a \in del.asset} \cap files) :
          Cardinality(failing) <= MaxRemoveErrors}

delete_asset_begin ==
  \E by \in {"name", "uid"}, token_ok \in BOOLEAN :
    \E ident \in DeleteIdents(by) : delete_asset_lookup(by, ident, token_ok)

delete_asset ==
  \/ \E failing \in RemovalFailures : delete_asset_remove_files(failing)
  \/ \E commit_ok \in BOOLEAN : delete_asset_from_db(commit_ok)
  \/ delete_asset_interrupted

\* The second delete request: the same handler, run once, at any time
\* before, between or after the steps of the first.
peer_delete_asset_lookup(by, ident, token_ok) ==
  /\ peer.pc = "idle"
  /\ LET found == IF by = "name" THEN get_asset_by_base_name(db, ident)
                  ELSE get_asset_by_uid(db, ident)
         request == [IdleDelete EXCEPT
                       !.target = found, !.token_ok = token_ok,
                       !.malformed = (by = "uid" /\ ~ WellFormedUuid(ident)),
                       !.named = NamedBy(ident)]
     IN peer' = IF ~ token_ok
                THEN [request EXCEPT !.pc = "done", !.outcome = "InvalidCredential"]
                ELSE IF found = {}
                THEN [request EXCEPT !.pc = "done", !.outcome = "NotFound"]
                ELSE [request EXCEPT !.pc = "files", !.asset = found]
  /\ UNCHANGED <<startup, del, clamav_enabled, files, dirs, db, up>>

\* A file step of the second request that fails when a file it looks for
\* has been removed by the first.
peer_delete_asset_remove_files_strict(failing) ==
  /\ peer.pc = "files"
  /\ LET probed == UNION {delete_asset_files(a) : a \in peer.asset}
         existing == probed \cap files
     IN /\ failing \subseteq existing
        /\ Cardinality(failing) <= MaxRemoveErrors
        /\ files' = files \ (existing \ failing)
        /\ peer' = IF existing = {}
                   THEN [peer EXCEPT !.pc = "done", !.outcome = "FileNotFoundError"]
                   ELSE [peer EXCEPT !.pc = "db", !.failed = failing,
                                   !.removed = existing \ failing]
  /\ UNCHANGED <<startup, del, clamav_enabled, dirs, db, up>>

\* delete_asset_files of the second request: files that are gone already
\* are passed over (os.path.exists), a removal that raises is logged.
peer_delete_asset_remove_files(failing) ==
  /\ peer.pc = "files"
  /\ LET probed == UNION {delete_asset_files(a) : a \in peer.asset}
         existing == probed \cap files
     IN /\ failing \subseteq existing
        /\ Cardinality(failing) <= MaxRemoveErrors
        /\ files' = files \ (existing \ failing)
        /\ peer' = [peer EXCEPT !.pc = "db", !.failed = failing,
                                   !.removed = existing \ failing]
  /\ UNCHANGED <<startup, del, clamav_enabled, dirs, db, up>>

\* delete_asset_from_db of the second request.  session.delete of a row
\* another session has deleted emits a DELETE that matches no row; without
\* a version column the mapper only warns, and the commit goes through.
peer_delete_asset_from_db(commit_ok) ==
  /\ peer.pc = "db"
  /\ IF commit_ok
     THEN /\ db' = {a \in db : \A d \in peer.asset : a.uid # d.uid}
          /\ peer' = [peer EXCEPT !.pc = "done", !.outcome = "Deleted"]
     ELSE /\ peer' = [peer EXCEPT !.pc = "done", !.outcome = "OperationalError"]
          /\ UNCHANGED db
  /\ UNCHANGED <<startup, del, clamav_enabled, files, dirs, up>>

PeerRemovalFailures ==
  IF peer.pc # "files" THEN {}
  ELSE {failing \in SUBSET (UNION {delete_asset_files(a) : a \in peer.asset} \cap files) :
          Cardinality(failing) <= MaxRemoveErrors}

peer_delete_asset ==
  \/ \E by \in {"name", "uid"} :
       \E ident \in DeleteIdents(by) : peer_delete_asset_lookup(by, ident, TRUE)
  \/ \E failing \in PeerRemovalFailures : peer_delete_asset_remove_files(failing)
  \/ \E commit_ok \in BOOLEAN : peer_delete_asset_from_db(commit_ok)

(***************************************************************************)
(* Retrieval: GET /asset/{base_name}, GET /files/...                       *)
(***************************************************************************)
\* "/".join(segments)
RECURSIVE JoinSlash(_)
JoinSlash(segs) ==
  IF segs = <<>> THEN <<>>
  ELSE IF Len(segs) = 1 THEN segs[1]
  ELSE segs[1] \o <<"/">> \o JoinSlash(Tail(segs))

\* os.path.basename and os.path.dirname of a relative path string.
Basename(path) == LET segs == SplitSlash(path) IN segs[Len(segs)]

Dirname(path) ==
  LET segs == SplitSlash(path)
  IN RStrip(JoinSlash(SubSeq(segs, 1, Len(segs) - 1)), {"/"})

NotFoundResponse == [status |-> "NotFound", file |-> <<>>, media_type |-> <<>>]

\* build_asset_payload: the "original" path of the payload.
OriginalPath(asset) ==
  LET filename_with_ext == asset.name \o <<".">> \o asset.extension
  IN IF asset.model_type = "image"
     THEN LET folder == StoredFolder(asset, "images")
          IN (IF Truthy(folder) THEN <<"/", "files", "/", "images", "/">> \o folder
              ELSE <<"/", "files", "/", "images">>)
               \o <<"/", "original", "/">> \o filename_with_ext
     ELSE <<"/", "files", "/">> \o asset.folder \o <<"/">> \o filename_with_ext

\* serve_image_file(variant, filename) over the rows and the files on disk.
serve_image_file(rows, fs, variant, filename) ==
  IF ~ (Len(variant) = 1 /\ variant[1] \in IMAGE_VARIANT_SET)
  THEN NotFoundResponse
  ELSE LET basename == Basename(filename)
           base_name == SubSeq(basename, 1, Len(basename) - Len(SplitExt(basename)))
           asset == get_asset_by_base_name(rows, base_name)
           path_folder == IF Contains(filename, <<"/">>) /\ Dirname(filename) # <<>>
                          THEN Dirname(filename) ELSE None
           folder == IF \E a \in asset : Truthy(StoredFolder(a, "images"))
                     THEN StoredFolder(CHOOSE a \in asset : TRUE, "images")
                     ELSE path_folder
           base_image_dir == _get_folder_storage_path(DIRS["image"], folder)
           file_path == Resolve(PathJoin(PathJoin(base_image_dir, variant), basename))
           high_path == Resolve(PathJoin(PathJoin(base_image_dir, variant),
                                         base_name \o <<".", "jpg">>))
           \* the .jpg of the high variant is looked for after the 404 above
           served == IF variant = <<"high">> /\ file_path \notin fs
                     THEN high_path ELSE file_path
       IN IF file_path \notin fs THEN NotFoundResponse
          ELSE IF served \notin fs THEN NotFoundResponse
          ELSE [status |-> "OK", file |-> served,
                media_type |-> IF asset # {} THEN (CHOOSE a \in asset : TRUE).mime_type
                               ELSE <<"application", "/", "octet-stream">>]

\* mimetypes.guess_type by extension, as StaticFiles answers.
GuessType(filename) ==
  LET extension == Lower(SplitExt(filename))
  IN IF extension = <<".", "png">> THEN <<"image", "/", "png">>
     ELSE IF extension = <<".", "jpg">> THEN <<"image", "/", "jpeg">>
     ELSE IF extension = <<".", "pdf">> THEN <<"application", "/", "pdf">>
     ELSE <<"application", "/", "octet-stream">>

\* GET url_path: the route /files/images/{variant}/{filename:path} takes
\* every path with a non-empty segment after /files/images/ and a further
\* slash; any other path under /files goes to the static mount on BASE_PATH.
get_variant_file(rows, fs, url_path) ==
  LET segs == SplitSlash(url_path)
  IN IF Len(segs) >= 5 /\ segs[1] = <<>> /\ segs[2] = <<"files">>
          /\ segs[3] = <<"images">> /\ segs[4] # <<>>
     THEN serve_image_file(rows, fs, segs[4], JoinSlash(SubSeq(segs, 5, Len(segs))))
     ELSE IF Len(segs) >= 3 /\ segs[1] = <<>> /\ segs[2] = <<"files">>
               /\ Resolve(BASE_PATH \o SubSeq(url_path, 3, Len(url_path))) \in fs
     THEN [status |-> "OK",
           file |-> Resolve(BASE_PATH \o SubSeq(url_path, 3, Len(url_path))),
           media_type |-> GuessType(segs[Len(segs)])]
     ELSE NotFoundResponse

\* build_asset_payload: the object under "asset" in the response.  Of the
\* columns the rows here do not carry, the payload holds what the persist
\* functions set: title None, disk "local", status 0, is_paragraph None.
build_asset_payload(asset) ==
  [uid |-> UidStr(asset.uid),
   original_name |-> asset.original_name,
   title |-> None,
   name |-> asset.name,
   folder |-> asset.folder,
   mime_type |-> asset.mime_type,
   extension |-> asset.extension,
   disk |-> <<"local">>,
   size |-> <<"size">>,
   status |-> 0,
   original |-> OriginalPath(asset),
   manipulations |-> IF asset.model_type = "image"
                     THEN <<"DEFAULT_MANIPULATIONS">> ELSE None,
   custom_properties |-> asset.custom_properties,
   responsive_images |-> IF asset.model_type = "image"
                         THEN asset.responsive_images ELSE NoManifest,
   is_paragraph |-> None,
   created_at |-> <<"now">>,
   updated_at |-> <<"now">>]

\* The response of an upload request that ended with success.
UploadResponse(u) == {build_asset_payload(a) : a \in up[u].asset}

NoPayload == [status |-> "NotFound", payload |-> {}]

\* A GET /asset handler that answers with any row of the table.
get_asset_info_any(rows, base_name) ==
  IF rows = {} THEN NoPayload
  ELSE [status |-> "OK", payload |-> {build_asset_payload(CHOOSE a \in rows : TRUE)}]

\* A GET /asset handler that is shut out while the asset is being deleted.
get_asset_info_excluded(rows, base_name) ==
  LET asset == get_asset_by_base_name(rows, base_name)
  IN IF asset = {} \/ (del.pc \in {"files", "db"} /\ asset = del.asset) THEN NoPayload
     ELSE [status |-> "OK", payload |-> {build_asset_payload(a) : a \in asset}]

\* get_asset_info: GET /asset/{base_name}; scalar_one_or_none raises when
\* more than one row carries the name.
get_asset_info(rows, base_name) ==
  LET asset == get_asset_by_base_name(rows, base_name)
  IN IF asset = {} THEN NoPayload
     ELSE IF Cardinality(asset) > 1
     THEN [status |-> "MultipleResultsFound", payload |-> {}]
     ELSE [status |-> "OK", payload |-> {build_asset_payload(a) : a \in asset}]

\* os.makedirs that takes an existing directory for an error.
os_makedirs_strict(ds, fs, p, exist_ok) ==
  IF MakeDirs(p) \cap fs # {} \/ Resolve(p) \in ds
  THEN [raised |-> TRUE, dirs |-> ds]
  ELSE [raised |-> FALSE, dirs |-> ds \cup MakeDirs(p)]

\* os.makedirs(p, exist_ok) on the directories ds and the files fs: it
\* raises FileExistsError when a file stands where a directory is to be, or
\* when the last directory exists and exist_ok is false.
os_makedirs(ds, fs, p, exist_ok) ==
  IF MakeDirs(p) \cap fs # {} \/ (Resolve(p) \in ds /\ ~ exist_ok)
  THEN [raised |-> TRUE, dirs |-> ds]
  ELSE [raised |-> FALSE, dirs |-> ds \cup MakeDirs(p)]

\* The calls of _ensure_folder_directories one after the other, from
\* sub-directory number i on; an exception ends them.
RECURSIVE EnsureSubdirectories(_, _, _, _)
EnsureSubdirectories(made, fs, folder_path, i) ==
  IF made.raised \/ i > Len(IMAGE_SUBDIRECTORIES) THEN made
  ELSE EnsureSubdirectories(
         os_makedirs(made.dirs, fs, PathJoin(folder_path, <<IMAGE_SUBDIRECTORIES[i]>>), TRUE),
         fs, folder_path, i + 1)

\* One call of _ensure_folder_directories(category, folder) on the
\* directories ds and the files fs: whether it raised, and the directories after.
EnsureFolderDirectoriesCall(ds, fs, category, folder) ==
  LET folder_path == _get_folder_storage_path(DIRS[category], folder)
      made == os_makedirs(ds, fs, folder_path, TRUE)
  IN IF category = "image" THEN EnsureSubdirectories(made, fs, folder_path, 1)
     ELSE made

(***************************************************************************)
(* Start-up: init_db (src/database.py)                                     *)
(***************************************************************************)
\* What one attempt to create the tables ends with: success, the
\* OperationalError of a server that is not up yet, or another exception.
CreateResults == {"created", "OperationalError", "InterfaceError"}

\* A loop head that allows one attempt more than `retries`.
init_db_next_extra ==
  /\ startup.pc = "loop"
  /\ startup' =
       IF startup.attempt <= startup.retries
       THEN [startup EXCEPT !.pc = "create", !.attempt = @ + 1]
       ELSE IF startup.failed > 0
       THEN [startup EXCEPT !.pc = "done", !.outcome = "OperationalError"]
       ELSE [startup EXCEPT !.pc = "done", !.outcome = "returned"]
  /\ UNCHANGED <<clamav_enabled, files, dirs, db, up, del, peer>>

\* for attempt in range(1, retries + 1); after the loop the last error, if
\* there is one, is raised.
init_db_next ==
  /\ startup.pc = "loop"
  /\ startup' =
       IF startup.attempt < startup.retries
       THEN [startup EXCEPT !.pc = "create", !.attempt = @ + 1]
       ELSE IF startup.failed > 0
       THEN [startup EXCEPT !.pc = "done", !.outcome = "OperationalError"]
       ELSE [startup EXCEPT !.pc = "done", !.outcome = "returned"]
  /\ UNCHANGED <<clamav_enabled, files, dirs, db, up, del, peer>>

\* The try block: create_all, return on success; an OperationalError is
\* kept as last_error, any other exception leaves init_db.
init_db_create(result) ==
  /\ startup.pc = "create"
  /\ startup' =
       CASE result = "created" ->
              [startup EXCEPT !.pc = "done", !.outcome = "returned"]
         [] result = "OperationalError" ->
              [startup EXCEPT !.pc = "sleep", !.failed = @ + 1]
         [] OTHER ->
              [startup EXCEPT !.pc = "done", !.outcome = result]
  /\ UNCHANGED <<clamav_enabled, files, dirs, db, up, del, peer>>

\* await asyncio.sleep(delay_seconds) in the except clause.
init_db_sleep ==
  /\ startup.pc = "sleep"
  /\ startup' = [startup EXCEPT !.pc = "loop", !.sleeps = @ + 1]
  /\ UNCHANGED <<clamav_enabled, files, dirs, db, up, del, peer>>

\* on_startup has made the directories and calls init_db(retries).
InitStartup ==
  /\ clamav_enabled \in BOOLEAN
  /\ files = {}
  /\ dirs = _ensure_directories
  /\ db = {}
  /\ up = [u \in Uploads |-> IdleUpload]
  /\ del = IdleDelete
  /\ peer = IdleDelete
  /\ \E retries \in 0..MaxRetries :
       startup = [pc |-> "loop", outcome |-> "", retries |-> retries, attempt |-> 0,
                  failed |-> 0, sleeps |-> 0]

NextStartup ==
  \/ init_db_next
  \/ \E result \in CreateResults : init_db_create(result)
  \/ init_db_sleep

\* The event loop runs init_db on as long as it has a step to take.
SpecStartup == InitStartup /\ [][NextStartup]_vars /\ WF_vars(NextStartup)

\* One upload over all the inputs, and the delete requests.
Next ==
  \/ upload_file_begin({1}, FilenameInputs, FolderInputs, MimeInputs, SizeInputs)
  \/ upload_file(ProbeOutcomes)
  \/ delete_asset_begin
  \/ delete_asset

Spec == Init /\ [][Next]_vars

\* A delete request that carries the valid token.
delete_asset_authorized ==
  \E by \in {"name", "uid"} :
    \E ident \in DeleteIdents(by) : delete_asset_lookup(by, ident, TRUE)

\* Several uploads side by side over the smaller inputs, and the authorized
\* delete requests.
NextConcurrent ==
  \/ upload_file_begin(Uploads, ConcurrentFilenameInputs, ConcurrentFolderInputs,
                       ConcurrentMimeInputs, SizeInputs)
  \/ upload_file(ConcurrentProbeOutcomes)
  \/ delete_asset_authorized
  \/ delete_asset

SpecConcurrent == Init /\ [][NextConcurrent]_vars

\* Several uploads into the category roots, and the delete requests.
EncodingFolderInputs == { None }

NextEncoding ==
  \/ upload_file_begin(Uploads, ConcurrentFilenameInputs, EncodingFolderInputs,
                       ConcurrentMimeInputs, SizeInputs)
  \/ upload_file(ConcurrentProbeOutcomes)
  \/ delete_asset_begin
  \/ delete_asset

SpecEncoding == Init /\ [][NextEncoding]_vars

\* The uploads the two delete requests run against: the first request
\* uploads an image, stored with its five variant files, the others upload
\* documents.
ImageUploads == {u \in Uploads : u <= 1}
DocumentUploads == Uploads \ ImageUploads
ImageMimeInputs == { <<"image", "/", "png">> }
DocumentMimeInputs == { <<"application", "/", "pdf">> }

\* Uploads into the category roots and two delete requests side by side.
NextDeletes ==
  \/ upload_file_begin(ImageUploads, ConcurrentFilenameInputs, EncodingFolderInputs,
                       ImageMimeInputs, SizeInputs)
  \/ upload_file_begin(DocumentUploads, ConcurrentFilenameInputs, EncodingFolderInputs,
                       DocumentMimeInputs, SizeInputs)
  \/ upload_file(ConcurrentProbeOutcomes)
  \/ delete_asset_authorized
  \/ delete_asset
  \/ peer_delete_asset

SpecDeletes == Init /\ [][NextDeletes]_vars

\* The file {base_name}.jpg in the high directory of an image asset.
HighJpgPath(asset) ==
  Resolve(PathJoin(PathJoin(_get_folder_storage_path(DIRS["image"],
                                                     StoredFolder(asset, "images")),
                            <<"high">>),
                   asset.name \o <<".", "jpg">>))

\* A file {base_name}.jpg in the high directory of a stored image whose
\* record has another extension.  No upload of the service writes one (the
\* high variant is saved under the extension of the record); it is a file
\* the storage volume holds from elsewhere, the case delete_asset_files
\* provides for ("High variant might have .jpg extension").
high_jpg_stored ==
  /\ del.pc \in {"idle", "done"}
  /\ \E a \in db :
       /\ a.model_type = "image" /\ a.extension # <<"jpg">>
       /\ HighJpgPath(a) \notin files
       /\ Parent(HighJpgPath(a)) \in dirs
       /\ files' = files \cup {HighJpgPath(a)}
  /\ UNCHANGED <<startup, peer, clamav_enabled, dirs, db, up, del>>

\* One upload, the .jpg file beside the high variant of an image, and the
\* delete requests.
NextHighJpg ==
  \/ upload_file_begin({1}, ConcurrentFilenameInputs, ConcurrentFolderInputs,
                       ConcurrentMimeInputs, SizeInputs)
  \/ upload_file(ConcurrentProbeOutcomes)
  \/ high_jpg_stored
  \/ delete_asset_begin
  \/ delete_asset

SpecHighJpg == Init /\ [][NextHighJpg]_vars

\* One upload request received with every folder form field.
NextNormalize ==
  upload_file_begin({1}, ConcurrentFilenameInputs, NormalizeInputs,
                    ConcurrentMimeInputs, SizeInputs)

SpecNormalize == Init /\ [][NextNormalize]_vars

\* One upload of every pixel size, run to its end.
NextVariants ==
  \/ upload_file_begin({1}, ConcurrentFilenameInputs, ConcurrentFolderInputs,
                       ConcurrentMimeInputs, VariantSizeInputs)
  \/ upload_file(ConcurrentProbeOutcomes)

SpecVariants == Init /\ [][NextVariants]_vars

(***************************************************************************)
(* Notions the properties use.                                             *)
(***************************************************************************)
\* The base name and the row uid upload u draws.
BaseNameOf(u) == <<uuid4("n", u)>>
RowsOf(u) == {a \in db : a.uid = uuid4("i", u)}

\* The files on disk that carry the base name of upload u.
FilesOf(u) ==
  {f \in files : f # <<>> /\ f[Len(f)] # <<>> /\ f[Len(f)][1] = uuid4("n", u)}

\* The temp file of upload u is on disk.
TempFilePresent(u) ==
  up[u].temp_path # <<>> /\ Resolve(up[u].temp_path) \in files

\* The file on disk a "/files/..." path refers to: "/files" is BASE_PATH.
StaticFileLocation(url_path) ==
  Resolve(BASE_PATH \o SubSeq(url_path, 3, Len(url_path)))

\* The number of files an ingestion of the category places.
FilesPerAsset(category) == IF category = "image" THEN Len(IMAGE_VARIANTS) ELSE 1

\* The delete request has ended with Deleted for the asset upload u created.
DeletedAssetOf(u) ==
  /\ up[u].outcome = "Complete"
  /\ del.pc = "done" /\ del.outcome = "Deleted"
  /\ \E a \in del.asset : a.name = up[u].base_name

ResponseKeys ==
  {ResponseKey(IMAGE_VARIANTS[i].key) : i \in 1..Len(IMAGE_VARIANTS)}

(***************************************************************************)
(* Properties.                                                             *)
(***************************************************************************)
\* C1 as stated: after a successful delete_asset of an ingested asset none
\* of the files its ingestion placed is left, its record is gone and
\* get_asset of its base name finds nothing.
C1_RoundTripStated ==
  \A u \in Uploads :
    DeletedAssetOf(u) =>
      /\ up[u].placed \cap files = {}
      /\ get_asset_by_base_name(db, up[u].base_name) = {}

\* C1 amended: after a successful delete_asset of an ingested asset every
\* file its ingestion placed is gone except those whose removal raised
\* OSError, its record is gone and get_asset of its base name finds nothing.
C1_RoundTrip ==
  \A u \in Uploads :
    DeletedAssetOf(u) =>
      /\ up[u].placed \cap files \subseteq del.failed
      /\ RowsOf(u) = {}
      /\ get_asset_by_base_name(db, up[u].base_name) = {}

\* C1 witness: an asset ingested with a folder has been deleted and none of
\* the files placed for it is left.
C1_Witness ==
  \E u \in Uploads :
    /\ DeletedAssetOf(u)
    /\ Truthy(up[u].folder)
    /\ up[u].placed # {}
    /\ up[u].placed \cap files = {}

\* C2: when the record of an image is created its manifest has exactly the
\* five variant keys and the file each entry's path refers to is on disk.
C2_ManifestFilesExist ==
  [][\A u \in Uploads :
       (up[u].pc = "persist" /\ up[u].category = "image" /\ up'[u].outcome = "Complete")
       => LET entries == ImageAsset(u).responsive_images.entries
          IN /\ Len(entries) = 5
             /\ {entries[i].key : i \in 1..Len(entries)} = ResponseKeys
             /\ \A i \in 1..Len(entries) : StaticFileLocation(entries[i].path) \in files'
    ]_vars

\* C3: no file of a run is in permanent storage before its scan gate has
\* passed, a record exists only for a run all of whose files were placed,
\* and at the step that creates the record all those files are on disk.
C3_StepsInOrder ==
  /\ [](\A u \in Uploads :
          /\ (up[u].pc \in {"idle", "scan"}
                \/ up[u].outcome \in {"InvalidCredential", "SecurityScanFailed"})
               => (FilesOf(u) = {} /\ up[u].placed = {})
          /\ get_asset_by_base_name(db, BaseNameOf(u)) # {}
               => Cardinality(up[u].placed) = FilesPerAsset(up[u].category))
  /\ [][\A u \in Uploads :
          (RowsOf(u) = {} /\ RowsOf(u)' # {})
          => /\ Cardinality(up[u].placed) = FilesPerAsset(up[u].category)
             /\ up[u].placed \subseteq files'
             /\ up[u].placed = FilesOf(u)'
       ]_vars

\* C3 witness: the record of an image exists, with its five files on disk.
C3_Witness ==
  \E u \in Uploads :
    /\ up[u].category = "image"
    /\ RowsOf(u) # {}
    /\ Cardinality(up[u].placed \cap files) = 5

C5_InvalidCredential ==
  /\ [](/\ \A u \in Uploads :
             ~ up[u].token_ok =>
               /\ up[u].pc = "done" /\ up[u].outcome = "InvalidCredential"
               /\ up[u].temp_path = <<>> /\ up[u].placed = {} /\ FilesOf(u) = {}
        /\ ~ del.token_ok => (del.pc = "done" /\ del.outcome = "InvalidCredential"))
  /\ [][((\E u \in Uploads : up[u].token_ok /\ ~ up'[u].token_ok)
          \/ (del' # del /\ ~ del'.token_ok))
        => UNCHANGED <<files, dirs, db>>]_vars

\* C5 witness: a delete with an invalid token was rejected while the asset
\* it names is in the store with all its files.
C5_Witness ==
  /\ del.outcome = "InvalidCredential"
  /\ \E u \in Uploads :
       /\ RowsOf(u) # {} /\ RowsOf(u) = del.target
       /\ up[u].placed # {} /\ up[u].placed \subseteq files

\* C6: when the scan gate returns false the run has ended with
\* SecurityScanFailed, its temp file is gone, and nothing of it is in
\* permanent storage or in the store.
C6_ScanRefused ==
  \A u \in Uploads :
    /\ (up[u].scan # "" /\ ~ up[u].allowed)
         => (up[u].pc = "done" /\ up[u].outcome = "SecurityScanFailed")
    /\ up[u].outcome = "SecurityScanFailed"
         => /\ ~ TempFilePresent(u)
            /\ FilesOf(u) = {} /\ up[u].placed = {}
            /\ RowsOf(u) = {}
            /\ dirs = _ensure_directories

\* C6 witness: a scanner found something and the upload was refused.
C6_Witness ==
  \E u \in Uploads :
    up[u].scan = "found" /\ ~ up[u].allowed /\ up[u].outcome = "SecurityScanFailed"

C8_DetectionRejects ==
  \A u \in Uploads :
    up[u].scan = "found" => (~ up[u].allowed /\ up[u].outcome = "SecurityScanFailed")

\* C9: when classification fails with UnsupportedMediaType the temp file of
\* the upload is gone.
C9_UnsupportedTempRemoved ==
  \A u \in Uploads :
    up[u].outcome = "UnsupportedMediaType" => ~ TempFilePresent(u)

\* C10: after variant generation failed no variant file of the attempt is
\* on disk.
C10_NoPartialVariants ==
  \A u \in Uploads :
    up[u].outcome \in {"UnidentifiedImageError", "OSError"} =>
      (FilesOf(u) = {} /\ up[u].placed \cap files = {})

\* C11: extract_file_metadata never raises: whatever the probing tool does
\* for an audio, video or pdf file, a map is returned and the ingestion is
\* not aborted by the probe.
C11_ExtractNeverRaises ==
  \A u \in Uploads :
    up[u].probe # "" =>
      /\ ~ extract_file_metadata(up[u].category, up[u].probe).raised
      /\ up[u].outcome \in {"Complete", "OperationalError"}

\* The rows the identifier of the delete request in flight names are gone.
TargetDeleted == \A a \in del.asset : a \notin db

\* C12: the file step of delete_asset always goes on to the record step,
\* whether the files are there, missing, or their removal raises OSError:
\* every probed file is then removed or among the failed ones, and when the
\* request ends with Deleted the record is gone.
C12_DeleteIgnoresFileErrors ==
  /\ [](del.outcome \in {"", "InvalidCredential", "NotFound", "Deleted",
                          "OperationalError", "Interrupted"})
  /\ [](del.pc = "db" =>
          \A a \in del.asset : delete_asset_files(a) \cap files \subseteq del.failed)
  /\ [](del.outcome = "Deleted" => TargetDeleted)
  /\ [][del.pc = "files" => del'.pc = "db"]_del

\* C12 witness: a delete ended with Deleted although the removal of a file
\* raised OSError (the file is still there) and another probed file was
\* missing from the start.
C12_Witness ==
  /\ del.outcome = "Deleted"
  /\ del.failed # {} /\ del.failed \subseteq files
  /\ TargetDeleted
  /\ \E a \in del.asset : delete_asset_files(a) \ del.failed # {}

C14_DeleteNotFound ==
  /\ []((del.token_ok /\ del.pc # "idle" /\ del.target = {}) =>
          (del.pc = "done" /\ del.outcome = "NotFound"))
  /\ []((del.token_ok /\ del.malformed) => del.outcome = "NotFound")
  /\ [](del.outcome = "NotFound" => del.target = {})
  /\ [][del'.outcome = "NotFound" => UNCHANGED <<files, dirs, db>>]_del

\* C14 witness: a delete by a string that is not a UUID ended with NotFound
\* while the store holds an asset with its files.
C14_Witness ==
  /\ del.outcome = "NotFound" /\ del.malformed
  /\ \E u \in Uploads :
       RowsOf(u) # {} /\ up[u].placed # {} /\ up[u].placed \subseteq files

\* The name of the root directory of a category, as asset.folder records it.
RootName(category) == IF category = "image" THEN "images" ELSE category

\* The folder the spec gives an asset: root name, then the normalised folder.
ExpectedFolder(category, folder_raw) ==
  LET normalized == _normalize_folder_path(folder_raw)
  IN IF normalized = None THEN <<RootName(category)>>
     ELSE <<RootName(category), "/">> \o normalized

\* C15: the folder of every stored asset starts with the root name of its
\* category (images, pdf, audio, video) and goes on with exactly the
\* normalised folder of the request, or is the root name alone when that is
\* null.
C15_FolderUnderCategoryRoot ==
  \A u \in Uploads : \A a \in RowsOf(u) :
    /\ a.model_type \in Categories
    /\ a.folder = ExpectedFolder(a.model_type, up[u].folder_raw)
    /\ SplitSlash(a.folder)[1] = <<RootName(a.model_type)>>
    /\ RootName(a.model_type) \in {"images", "pdf", "audio", "video"}

\* C15 witness: a PDF uploaded with a folder written with slashes around
\* and a backslash inside is stored with folder "pdf/a/b".
C15_Witness ==
  \E u \in Uploads : \E a \in RowsOf(u) :
    /\ up[u].folder_raw = <<"/", "a", "\\", "b", "/">>
    /\ a.model_type = "pdf"
    /\ a.folder = <<"pdf", "/", "a", "/", "b">>

\* s with the slash at position i written twice.
DoubleSlashAt(s, i) == SubSeq(s, 1, i) \o <<"/">> \o SubSeq(s, i + 1, Len(s))

\* C16: empty, null and blank folders normalise to null, and a folder
\* normalises to the same result with blanks around it, with a slash before
\* or after it, with a slash doubled, and with its backslashes written as
\* slashes.
C16_NormalizeEquivalences ==
  \A u \in Uploads :
    (up[u].pc = "scan") =>
      LET raw == up[u].folder_raw
          n == _normalize_folder_path(raw)
      IN /\ (raw = None \/ Strip(raw, Whitespace) = <<>>) => n = None
         /\ raw # None =>
              /\ _normalize_folder_path(<<" ">> \o raw \o <<" ">>) = n
              /\ Strip(raw, Whitespace) = raw =>
                    /\ _normalize_folder_path(<<"/">> \o raw) = n
                    /\ _normalize_folder_path(raw \o <<"/">>) = n
              /\ \A i \in 1..Len(raw) :
                    raw[i] = "/" => _normalize_folder_path(DoubleSlashAt(raw, i)) = n
              /\ _normalize_folder_path(Replace1(raw, "\\", "/")) = n

\* C17: the normalised folder is null or a non-empty relative path with no
\* slash or backslash at either end, no backslash anywhere and no two
\* slashes in a row.
C17_NormalizeCanonical ==
  \A u \in Uploads :
    (up[u].pc = "scan") =>
      LET n == up[u].folder
      IN n = None \/
           /\ n # <<>>
           /\ n[1] \notin {"/", "\\"}
           /\ n[Len(n)] \notin {"/", "\\"}
           /\ \A i \in 1..Len(n) : n[i] # "\\"
           /\ ~ Contains(n, <<"/", "/">>)

\* What classification by the MIME type alone gives.
CategoryOfMime(mime_type) ==
  IF mime_type # <<>> /\ mime_type[1] = "image" /\ Len(mime_type) >= 2 /\ mime_type[2] = "/"
  THEN "image"
  ELSE IF mime_type = <<"application", "/", "pdf">> THEN "pdf"
  ELSE IF Len(mime_type) >= 2 /\ mime_type[1] = "audio" /\ mime_type[2] = "/" THEN "audio"
  ELSE IF Len(mime_type) >= 2 /\ mime_type[1] = "video" /\ mime_type[2] = "/" THEN "video"
  ELSE "unsupported"

\* C18: the category of an upload is decided by its sniffed MIME type alone:
\* image/* is image, application/pdf is pdf, audio/* is audio, video/* is
\* video, any other type ends with UnsupportedMediaType, and the file name
\* changes nothing.
C18_ClassifyByMime ==
  \A u \in Uploads :
    /\ up[u].category # "" => up[u].category = CategoryOfMime(up[u].mime_type)
    /\ up[u].outcome = "UnsupportedMediaType"
         => (up[u].category = "" /\ CategoryOfMime(up[u].mime_type) = "unsupported")
    /\ (up[u].mime_type # <<>> /\ CategoryOfMime(up[u].mime_type) = "unsupported")
         => /\ up[u].category = ""
            /\ up[u].pc \in {"scan", "classify", "done"}
            /\ up[u].pc = "done"
                 => up[u].outcome \in {"SecurityScanFailed", "UnsupportedMediaType"}
    /\ up[u].mime_type # <<>> =>
         \A filename \in FilenameInputs \cup {<<"x", ".", "PDF">>, <<>>} :
           classify_file(up[u].mime_type, filename) = CategoryOfMime(up[u].mime_type)

\* C18 witness: a body sniffed as application/pdf sent under an image file
\* name is a pdf, and one sniffed as text/plain is refused.
C18_Witness ==
  \E u \in Uploads :
    /\ up[u].filename = <<"t", ".", "PNG">>
    /\ up[u].mime_type = <<"application", "/", "pdf">>
    /\ up[u].category = "pdf"

\* C19: every variant with a box reports a width and height within the box
\* and never above the source, the source size itself when the source fits
\* the box, and otherwise a size that touches the box on one side; the
\* original reports the source size.  Every variant is measured against the
\* source, whatever the variants before it were.
C19_NoUpscale ==
  \A u \in Uploads : \A i \in 1..Len(up[u].variants) :
    LET source == up[u].source_size
        box == IMAGE_VARIANTS[i].max_size
        reported == up[u].variants[i].size
    IN /\ box = <<>> => reported = source
       /\ box # <<>> =>
            /\ reported[1] <= box[1] /\ reported[2] <= box[2]
            /\ reported[1] <= source[1] /\ reported[2] <= source[2]
            /\ reported[1] >= 1 /\ reported[2] >= 1
            /\ (source[1] <= box[1] /\ source[2] <= box[2]) => reported = source
            /\ (source[1] > box[1] \/ source[2] > box[2])
                 => (reported[1] = box[1] \/ reported[2] = box[2])

\* C19 witness: a 100x100 source is reported as 100x100 in small and a
\* larger one as exactly its box-bound size in each variant.
C19_Witness ==
  \E u \in Uploads :
    /\ up[u].source_size = <<100, 100>>
    /\ Len(up[u].variants) = 5
    /\ up[u].variants[2].size = <<100, 100>>
    /\ up[u].variants[5].size = <<20, 20>>

\* The response to a request for the path of variant number i of upload u
\* is the file of that variant with the MIME type of the record.
ServedAsVariant(u, a, i, url_path) ==
  LET response == get_variant_file(db, files, url_path)
  IN /\ response.status = "OK"
     /\ response.file = Resolve(VariantPath(up[u].folder, i,
                                            up[u].base_name \o up[u].extension))
     /\ response.media_type = a.mime_type

\* C20: for an image in the store whose files are on disk, requesting each
\* path of its responsive_images, and its "original" path, returns the file
\* of that variant of that asset with the recorded MIME type.
C20_ManifestPathsServed ==
  \A u \in Uploads : \A a \in RowsOf(u) :
    (a.model_type = "image" /\ up[u].placed \subseteq files) =>
      /\ \A i \in 1..Len(a.responsive_images.entries) :
           ServedAsVariant(u, a, i, a.responsive_images.entries[i].path)
      /\ ServedAsVariant(u, a, 1, OriginalPath(a))

\* C21: the payload an upload request that ended with success returns has a
\* model_type field, equal to the category of the asset.
C21_PayloadModelType ==
  \A u \in Uploads : \A a \in up[u].asset :
    LET payload == build_asset_payload(a)
    IN /\ "model_type" \in DOMAIN payload
       /\ payload.model_type = a.model_type

\* C22: while the row of an ingested asset is in the table, get_asset_info
\* of its base name returns a payload whose uid, name and folder are those
\* of the upload response; a base name no row carries (never ingested, or
\* deleted) is answered with NotFound.
C22_GetAssetMatchesUpload ==
  /\ \A u \in Uploads : \A a \in up[u].asset : \A sent \in UploadResponse(u) :
       LET got == get_asset_info(db, sent.name)
       IN IF a \in db
          THEN /\ got.status = "OK"
               /\ \A payload \in got.payload :
                    /\ payload.uid = sent.uid
                    /\ payload.name = sent.name
                    /\ payload.folder = sent.folder
               /\ got.payload # {}
          ELSE got.status = "NotFound"
  /\ \A base_name \in DeleteIdents("name") :
       (\A a \in db : a.name # base_name) =>
         get_asset_info(db, base_name).status = "NotFound"

\* C22 witness: an image ingested into a folder is in the table next to a
\* name no row carries, and get_asset_info returns its payload.
C22_Witness ==
  \E u \in Uploads : \E a \in up[u].asset :
    /\ a \in db
    /\ a.model_type = "image"
    /\ Truthy(up[u].folder)
    /\ get_asset_info(db, a.name).payload = UploadResponse(u)
    /\ get_asset_info(db, <<"nonexistent123">>).status = "NotFound"

\* C23: the uid string of an upload response, passed to the delete by uid,
\* selects exactly the asset of that upload and no other; when that delete
\* ends with success exactly that row is gone and get_asset_info of its
\* name is answered with NotFound.
C23_UidRoundTrip ==
  /\ [](\A u \in Uploads : \A sent \in UploadResponse(u) :
          get_asset_by_uid(db, sent.uid) = up[u].asset \cap db)
  /\ [][\A u \in Uploads : \A sent \in UploadResponse(u) :
          (delete_asset_lookup("uid", sent.uid, TRUE) /\ up[u].asset \subseteq db) =>
            (del'.pc = "files" /\ del'.asset = up[u].asset)]_vars
  /\ [][(del.pc = "db" /\ del'.outcome = "Deleted") =>
          /\ db' = db \ del.asset
          /\ \A a \in del.asset :
               /\ get_asset_info(db', a.name).status = "NotFound"
               /\ get_asset_by_uid(db', UidStr(a.uid)) = {}]_vars

\* C23 witness: of two ingested assets the one whose response uid was sent
\* to the delete is gone and the other is still found by its own uid.
C23_Witness ==
  \E u, v \in Uploads :
    /\ u # v
    /\ up[u].asset # {} /\ up[v].asset # {}
    /\ del.outcome = "Deleted" /\ del.asset = up[u].asset
    /\ \A sent \in UploadResponse(u) :
         /\ get_asset_by_uid(db \cup del.asset, sent.uid) = del.asset
         /\ get_asset_by_uid(db, sent.uid) = {}
         /\ get_asset_info(db, sent.name).status = "NotFound"
    /\ \A sent \in UploadResponse(v) : get_asset_by_uid(db, sent.uid) = up[v].asset

\* The files a run has made so far: its temp file and the permanent files.
FilesMadeBy(u) ==
  up[u].placed \cup (IF up[u].temp_path = <<>> THEN {} ELSE {Resolve(up[u].temp_path)})

\* C24: two ingestion runs, in any interleaving and also with the same
\* filename and folder, have different temp files, different base names and
\* disjoint permanent files, and no step of one run writes over or removes
\* a file of the other.
C24_RunsDisjoint ==
  /\ [](\A u, v \in Uploads :
          u # v =>
            /\ (up[u].temp_path # <<>> /\ up[v].temp_path # <<>>) =>
                 Resolve(up[u].temp_path) # Resolve(up[v].temp_path)
            /\ (up[u].base_name # <<>> /\ up[v].base_name # <<>>) =>
                 up[u].base_name # up[v].base_name
            /\ up[u].placed \cap FilesMadeBy(v) = {})
  /\ [][\A u, v \in Uploads :
          (u # v /\ up'[u] # up[u]) =>
            /\ FilesMadeBy(v) \cap files \subseteq files'
            /\ (files' \ files) \cap FilesMadeBy(v) = {}]_vars

\* C24 witness: two runs with the same filename and the same folder have
\* both ended with success and the five files of each are on disk.
C24_Witness ==
  \E u, v \in Uploads :
    /\ u # v
    /\ up[u].filename = up[v].filename /\ up[u].folder = up[v].folder
    /\ Truthy(up[u].folder)
    /\ up[u].outcome = "Complete" /\ up[v].outcome = "Complete"
    /\ Cardinality(up[u].placed) = 5 /\ Cardinality(up[v].placed) = 5
    /\ up[u].placed \cup up[v].placed \subseteq files

\* generate_image_variants of request u is running in its worker thread.
Encoding(u) == up[u].pc \in {"variants", "variant"}

C26_RetrievalDuringDeletion ==
  \A a \in del.asset :
    /\ del.pc \in {"files", "db"} =>
         LET got == get_asset_info(db, a.name)
         IN /\ got.status = "OK"
            /\ got.payload = {build_asset_payload(a)}
    /\ (del.pc = "db" /\ del.failed = {}) =>
         get_variant_file(db, files, OriginalPath(a)).status = "NotFound"

\* C26 witness: the files an ingestion placed are removed and the record is
\* still there; the record is observed and the read of its file fails.
C26_Witness ==
  \E u \in Uploads : \E a \in del.asset :
    /\ del.pc = "db"
    /\ a \in up[u].asset
    /\ up[u].placed # {} /\ up[u].placed \cap files = {}
    /\ get_asset_info(db, a.name).status = "OK"
    /\ \A payload \in get_asset_info(db, a.name).payload :
         get_variant_file(db, files, payload.original).status = "NotFound"

\* C27: a run that fails after it placed files and before its record is
\* persisted ends with the error, is not run again, and leaves the placed
\* files on disk with no record of them.
C27_PlacedFilesLeftOnFailure ==
  /\ [](\A u \in Uploads :
          (up[u].placed # {} /\ up[u].outcome \notin {"", "Complete"}) =>
            /\ up[u].pc = "done"
            /\ up[u].outcome \in {"OSError", "OperationalError", "UnboundLocalError"}
            /\ RowsOf(u) = {} /\ up[u].asset = {}
            /\ up[u].placed \subseteq files)
  /\ [][\A u \in Uploads : up[u].pc = "done" => up'[u] = up[u]]_vars

\* C27 witness: the commit of an image record failed; the five variant files
\* are on disk and the table has no row.
C27_Witness ==
  \E u \in Uploads :
    /\ up[u].outcome = "OperationalError"
    /\ up[u].category = "image"
    /\ Cardinality(up[u].placed) = 5
    /\ up[u].placed \subseteq files
    /\ db = {}

\* The error kinds of the taxonomy.
StableErrorKinds ==
  {"InvalidCredential", "UnsupportedMediaType", "SecurityScanFailed",
   "DecodeError", "IOError", "NotFound"}

\* C28: every upload and every delete request ends with success or with
\* one of the stable error kinds; no exception type of a library or of the
\* interpreter is the outcome of a request.
C28_StableErrorKinds ==
  /\ \A u \in Uploads :
       up[u].pc = "done" => up[u].outcome \in {"Complete"} \cup StableErrorKinds
  /\ (del.pc = "done" /\ del.outcome # "Interrupted") =>
       del.outcome \in {"Deleted"} \cup StableErrorKinds

\* The folders the uploads ask for, normalised.
EnsuredFolders == {_normalize_folder_path(folder) : folder \in FolderInputs}

\* C29: whatever directories and files exist, a second call of
\* _ensure_folder_directories with the same category and folder does not
\* fail and leaves the set of directories the first call left.
C29_EnsureIdempotent ==
  \A category \in Categories, folder \in EnsuredFolders :
    LET first == EnsureFolderDirectoriesCall(dirs, files, category, folder)
        second == EnsureFolderDirectoriesCall(first.dirs, files, category, folder)
    IN ~ first.raised =>
         /\ ~ second.raised
         /\ second.dirs = first.dirs
         /\ first.dirs = dirs \cup _ensure_folder_directories(category, folder)

\* C29 witness: an image upload has ensured the directories of its folder
\* and written a file there; the call for the same folder succeeds again
\* and adds no directory.
C29_Witness ==
  \E u \in Uploads :
    /\ up[u].category = "image" /\ Truthy(up[u].folder)
    /\ up[u].placed # {} /\ up[u].placed \subseteq files
    /\ LET again == EnsureFolderDirectoriesCall(dirs, files, "image", up[u].folder)
       IN ~ again.raised /\ again.dirs = dirs

\* The directory of a folder under the root of its category.
FolderDirectory(category, folder) ==
  IF Truthy(folder) THEN DIRS[category] \o <<"/">> \o folder ELSE DIRS[category]

\* C30: whenever an ingestion run writes a file, the directory of its
\* folder under the category root exists, the directory the file goes to
\* exists, and for an image the five variant directories under that folder
\* existed before the step that wrote the variant.
C30_DirectoriesEnsuredFirst ==
  [][\A u \in Uploads : \A f \in up'[u].placed \ up[u].placed :
       LET folder_dir == FolderDirectory(up[u].category, up[u].folder)
       IN /\ Parent(f) \in dirs'
          /\ Resolve(folder_dir) \in dirs'
          /\ up[u].category = "image" =>
               \A i \in 1..Len(IMAGE_SUBDIRECTORIES) :
                 Resolve(folder_dir \o <<"/", IMAGE_SUBDIRECTORIES[i]>>) \in dirs]_vars

\* C32: a non-image run computes its final name, ensures the directories
\* and moves the temp file in its placement step, after which the temp file
\* is gone and the file is at its final path; the metadata extraction runs
\* after that, against the file at the final path, and the record is
\* persisted last.
C32_NonImagePlacementOrder ==
  /\ [](\A u \in Uploads :
          (up[u].category \notin {"", "image"}) =>
            /\ up[u].pc = "place" =>
                 (up[u].base_name = <<>> /\ up[u].placed = {} /\ TempFilePresent(u))
            /\ up[u].pc = "persist" =>
                 /\ up[u].base_name # <<>>
                 /\ ~ TempFilePresent(u)
                 /\ Cardinality(up[u].placed) = 1 /\ up[u].placed \subseteq files
                 /\ \A f \in up[u].placed : Parent(f) \in dirs
                 /\ up[u].probed = {} /\ RowsOf(u) = {}
            /\ RowsOf(u) # {} => up[u].probed = up[u].placed)
  /\ [][\A u \in Uploads :
          (up[u].category \notin {"", "image"} /\ up'[u].probed # up[u].probed) =>
            /\ up[u].pc = "persist"
            /\ up'[u].probed = up[u].placed
            /\ up'[u].probed \subseteq files]_vars

\* C32 witness: a PDF went through placement and extraction and has its record.
C32_Witness ==
  \E u \in Uploads :
    /\ up[u].category = "pdf" /\ up[u].outcome = "Complete"
    /\ Truthy(up[u].folder)
    /\ up[u].probe = "valid" /\ up[u].probed = up[u].placed
    /\ up[u].placed \subseteq files /\ ~ TempFilePresent(u)
    /\ RowsOf(u) # {}

\* C33: the content of an upload is not sniffed before the scan gate has
\* been invoked and has let the file pass.
C33_ScanBeforeSniff ==
  \A u \in Uploads : up[u].sniffed => (up[u].allowed /\ up[u].outcome # "SecurityScanFailed")

\* C34: a request for the high variant of an image under a name that is
\* not in the high directory, while {base_name}.jpg is there, is answered
\* with the .jpg file.
C34_HighJpgFallback ==
  \A a \in db : \A extension \in {<<"png">>, <<"webp">>} :
    LET requested == a.name \o <<".">> \o extension
        response == get_variant_file(db, files,
                                     <<"/", "files", "/", "images", "/", "high", "/">>
                                       \o requested)
    IN (/\ a.model_type = "image"
        /\ Append(Parent(HighJpgPath(a)), requested) \notin files
        /\ HighJpgPath(a) \in files) =>
         (response.status = "OK" /\ response.file = HighJpgPath(a))

\* C35: the temp file of an image run is on disk until all five variants
\* are written, and no image run that has ended - with its record or with a
\* failure of the variant generation - has left its temp file.
C35_ImageTempFileRemoved ==
  \A u \in Uploads :
    up[u].category = "image" =>
      /\ up[u].pc \in {"variants", "variant"} => TempFilePresent(u)
      /\ (~ TempFilePresent(u) /\ up[u].temp_path # <<>>) =>
           Len(up[u].variants) = Len(IMAGE_VARIANTS)
      /\ up[u].pc = "done" => ~ TempFilePresent(u)

\* The root directory of the category of upload u.
CategoryRoot(u) == Resolve(DIRS[up[u].category])

\* C36: every file an authorized upload writes to permanent storage, and
\* every directory made for it, lies inside the root directory of the
\* category of the asset, whatever folder string the caller sends.
C36_FilesInsideCategoryRoot ==
  /\ \A u \in Uploads : \A f \in up[u].placed : IsPrefix(CategoryRoot(u), f)
  /\ \A d \in dirs \ _ensure_directories :
       \E c \in Categories : IsPrefix(Resolve(DIRS[c]), d)

\* C37: normalising the normalised folder of a request gives the same
\* value again.
C37_NormalizeIdempotent ==
  \A u \in Uploads :
    up[u].pc # "idle" => _normalize_folder_path(up[u].folder) = up[u].folder

\* C38: a step of delete_asset changes no record but the one of its asset
\* and removes no file but those of its asset: the rows of all other
\* assets, and the files every other upload made, are there afterwards as
\* before, and nothing is added.
C38_DeleteLeavesOthers ==
  [][del' # del =>
       /\ dirs' = dirs /\ up' = up
       /\ db' \subseteq db /\ files' \subseteq files
       /\ db' # db => \A a \in db \ del'.asset : a \in db'
       /\ files' # files =>
            /\ files \ files' \subseteq UNION {delete_asset_files(a) : a \in del'.asset}
            /\ \A u \in Uploads :
                 up[u].asset \cap del'.asset = {} =>
                   FilesMadeBy(u) \cap files \subseteq files']_vars

\* C38 witness: of two images stored in the same folder one is deleted with
\* all its files; the other has its record and its five files.
C38_Witness ==
  \E u, v \in Uploads :
    /\ u # v
    /\ up[u].category = "image" /\ up[v].category = "image"
    /\ up[u].asset # {} /\ up[v].asset # {}
    /\ up[u].folder = up[v].folder /\ Truthy(up[u].folder)
    /\ del.outcome = "Deleted" /\ del.asset = up[u].asset
    /\ up[u].placed \cap files = {}
    /\ up[v].asset \subseteq db
    /\ Cardinality(up[v].placed) = 5 /\ up[v].placed \subseteq files

\* C40: init_db makes at most `retries` attempts; it returns at the first
\* attempt that succeeds; it makes a further attempt only after an
\* OperationalError; it raises OperationalError only when `retries`
\* attempts in a row have failed with it; and it always ends.
C40_InitDbRetries ==
  /\ [](/\ startup.attempt <= startup.retries
        /\ startup.failed <= startup.attempt
        /\ (startup.pc = "done" /\ startup.outcome = "returned" /\ startup.attempt > 0) =>
             startup.failed = startup.attempt - 1
        /\ (startup.pc = "done" /\ startup.outcome = "OperationalError") =>
             (startup.retries > 0 /\ startup.attempt = startup.retries
                /\ startup.failed = startup.retries)
        /\ (startup.pc = "done" /\ startup.outcome = "InterfaceError") =>
             startup.failed = startup.attempt - 1)
  /\ [][/\ startup'.attempt > startup.attempt =>
             (startup'.attempt = startup.attempt + 1 /\ startup.failed = startup.attempt)
        /\ startup.pc = "done" => startup' = startup]_startup
  /\ <>(startup.pc = "done")

\* C40 witness: with ten retries the first two attempts failed with
\* OperationalError and the third created the tables.
C40_Witness ==
  /\ startup.retries = 10
  /\ startup.pc = "done" /\ startup.outcome = "returned"
  /\ startup.attempt = 3 /\ startup.failed = 2 /\ startup.sleeps = 2

\* Both delete requests have ended, authorized, each with Deleted or
\* NotFound, each has named, by base name or by uid, the asset upload u
\* created, and at least one of them found it.
BothDeletesEndedFor(u) ==
  /\ up[u].asset # {}
  /\ del.pc = "done" /\ peer.pc = "done"
  /\ del.token_ok /\ peer.token_ok
  /\ del.outcome \in {"Deleted", "NotFound"}
  /\ peer.outcome \in {"Deleted", "NotFound"}
  /\ u \in del.named /\ u \in peer.named
  /\ "Deleted" \in {del.outcome, peer.outcome}

VariantPaths(asset) ==
  {Append(Append(Parent(Parent(HighJpgPath(asset))), <<IMAGE_VARIANTS[i].folder>>),
          asset.name \o <<".">> \o asset.extension) :
     i \in 1..Len(IMAGE_VARIANTS)}

\* C31: the file step of the deletion of an image asset removes, with the
\* five {variant}/{base_name}.{extension} files, the file
\* high/{base_name}.jpg under the folder of the asset when it is there,
\* whatever extension the record stores; only a file whose removal raised
\* OSError stays.
C31_HighJpgRemoved ==
  [][(del.pc = "files" /\ del'.pc = "db") =>
       \A a \in del.asset :
         a.model_type = "image" =>
           /\ (VariantPaths(a) \cup {HighJpgPath(a)}) \cap files' \subseteq del'.failed
           /\ (VariantPaths(a) \cup {HighJpgPath(a)}) \cap files
                 \subseteq del'.removed \cup del'.failed]_vars

\* C31 witness: an image stored as PNG in a folder had a .jpg file in its
\* high directory; its deletion ended with Deleted and removed the five
\* variant files and the .jpg file.
C31_Witness ==
  \E a \in del.asset :
    /\ del.pc = "done" /\ del.outcome = "Deleted"
    /\ a.model_type = "image" /\ a.extension # <<"jpg">>
    /\ Truthy(StoredFolder(a, "images"))
    /\ HighJpgPath(a) \in del.removed
    /\ VariantPaths(a) \subseteq del.removed
    /\ Cardinality(VariantPaths(a)) = Len(IMAGE_VARIANTS)
    /\ (VariantPaths(a) \cup {HighJpgPath(a)}) \cap files = {}

==========================================================================
